---- MODULE Spec2Model ----
(***************************************************************************)
(* d1mapper: the Database<T> accessor of src/src/Database.ts.              *)
(*                                                                         *)
(* The accessor builds one parameterised SQL statement per call and hands  *)
(* it to an injected D1 handle (prepare / bind / run | first | all).       *)
(*                                                                         *)
(* JavaScript values are tagged records, so that values of different       *)
(* JavaScript types are different TLA+ values:                             *)
(*   [num |-> n]          a number                                         *)
(*   [str |-> s]          a string                                         *)
(*   [undefined |-> TRUE] undefined                                        *)
(*   [null |-> TRUE]      null                                             *)
(*   [obj |-> o]          an object, where it travels beside a non-object  *)
(*   [array |-> a]        an array of column names (Array.isArray)         *)
(*   [single |-> c]       one column name given as a bare string           *)
(* A plain object (record, filter, defaults, row) is the sequence of its   *)
(* <<key, value>> entries in property order.  Column names are SQL         *)
(* identifiers, never integer-like strings, so property order is insertion *)
(* order.  SQL text is a TLA+ string, built by concatenation as the        *)
(* template literals build it.                                             *)
(***************************************************************************)
EXTENDS Integers, Sequences, FiniteSets, TLC

VARIABLES
  db,                 \* this.db: the handle the accessor was constructed with
  tableName,          \* this.tableName
  primaryKeyName,     \* this.primaryKeyName
  defaultProperties,  \* this.defaultProperties
  dbFailing,          \* the handle's state: TRUE when it fails every statement
  prepared,           \* the statements submitted to the handle, in order
  call,               \* the public call in flight (or the one that returned)
  pc,                 \* "called" while the call is pending, "returned" after
  answer,             \* what the handle answered to the last statement
  outcome,            \* what the call returned or threw
  rows,               \* the rows of the table, when the handle is an engine
  prior,              \* the rows and the call before the last mutating statement
  tasks               \* the calls of concurrent callers, each with its progress

vars == <<db, tableName, primaryKeyName, defaultProperties, dbFailing,
          prepared, call, pc, answer, outcome, rows, prior, tasks>>

config == <<db, tableName, primaryKeyName, defaultProperties>>

\* what only the specifications with an engine or with several callers use
extra == <<rows, prior, tasks>>

----------------------------------------------------------------------------
(* Bounds of the model. *)

\* most keys in a record / filter, most names in a column array
MaxKeys == 2
\* most keys in the accessor's default field values
MaxDefaultKeys == 1
\* most rows the engine returns to all()
MaxRows == 1
\* largest change count the engine reports
MaxChanges == 1

----------------------------------------------------------------------------
(* JavaScript values. *)

Num(n) == [num |-> n]
Str(s) == [str |-> s]
Undefined == [undefined |-> TRUE]
Null == [null |-> TRUE]
Obj(o) == [obj |-> o]
Arr(a) == [array |-> a]
Single(c) == [single |-> c]

Columns == {"id", "name", "age"}
Values == {Num(1), Str("Alice"), Undefined}
Steps == {Num(0 - 1), Num(0), Num(2)}
Tables == {"users"}

\* objects with exactly k own properties, in every property order
ObjectsOfLen(k) ==
  {o \in [1..k -> Columns \X Values] :
     \A i, j \in 1..k : i # j => o[i][1] # o[j][1]}

ObjectsUpTo(n) == UNION {ObjectsOfLen(k) : k \in 0..n}

\* arrays of distinct column names with exactly k elements
ArraysOfLen(k) ==
  {a \in [1..k -> Columns] : \A i, j \in 1..k : i # j => a[i] # a[j]}

\* K | K[]: one column name or an array of column names
PropsSet ==
  {Single(c) : c \in Columns}
    \cup {Arr(a) : a \in UNION {ArraysOfLen(k) : k \in 0..MaxKeys}}

----------------------------------------------------------------------------
(* Plain-object and array primitives of the language. *)

HasKey(o, k) == \E i \in 1..Len(o) : o[i][1] = k

\* o[k]: the value of property k, undefined when o has no such property
Get(o, k) ==
  IF HasKey(o, k)
    THEN o[CHOOSE i \in 1..Len(o) : o[i][1] = k][2]
    ELSE Undefined

\* o[k] = v on an object: an existing property keeps its place
SetKey(o, k, v) ==
  IF HasKey(o, k)
    THEN [i \in 1..Len(o) |-> IF o[i][1] = k THEN <<k, v>> ELSE o[i]]
    ELSE Append(o, <<k, v>>)

\* Object.keys(o)
ObjectKeys(o) == [i \in 1..Len(o) |-> o[i][1]]

RECURSIVE CopyInto(_, _)
\* copies the own properties of src onto target, in src's order
CopyInto(target, src) ==
  IF src = <<>>
    THEN target
    ELSE CopyInto(SetKey(target, Head(src)[1], Head(src)[2]), Tail(src))

SpreadRecordFirst(defaults, record) == CopyInto(CopyInto(<<>>, record), defaults)

SpreadDefaultsWin(defaults, record) ==
  CopyInto(CopyInto(CopyInto(<<>>, defaults), record), defaults)

\* { ...defaults, ...record }
Spread(defaults, record) == CopyInto(CopyInto(<<>>, defaults), record)

RECURSIVE Join(_, _)
\* Array.prototype.join on an array of strings
Join(a, sep) ==
  IF Len(a) = 0 THEN ""
  ELSE IF Len(a) = 1 THEN a[1]
  ELSE a[1] \o sep \o Join(Tail(a), sep)

\* `?${n}`
Placeholder(n) == "?" \o ToString(n)

----------------------------------------------------------------------------
(* The D1 handle: what run(), first() and all() may answer. *)

Statement(query, params, method) ==
  [query |-> query, params |-> params, method |-> method]

\* D1Result of run(): success flag and optional meta.changes
RunResults(failing) ==
  IF failing
    THEN {[success |-> FALSE, meta |-> Undefined]}
    ELSE {[success |-> TRUE, meta |-> m] :
            m \in {Undefined} \cup
                  {[changes |-> c] :
                     c \in {Undefined} \cup {Num(n) : n \in 0..MaxChanges}}}

\* a row as the engine hands it back
SampleRow == <<<<"id", Num(1)>>>>

\* first(): the first row or null
FirstResults == {Null, Obj(SampleRow)}

\* all(): { results: rows }
AllResults ==
  {[results |-> [i \in 1..n |-> SampleRow]] : n \in 0..MaxRows}

Return(v) == [kind |-> "return", value |-> v]
Throw(e) == [kind |-> "throw", error |-> e]

\* the error a failing handle raises from first() / all()
HandleError == [name |-> "D1_ERROR", message |-> "D1_ERROR"]

----------------------------------------------------------------------------
(* Database<T> *)

\* the members the class defines
Methods ==
  {"insert", "findOne", "findAll", "findMany", "update", "delete",
   "increment", "exists"}

\* result.meta?.changes
MetaChanges(result) ==
  IF result.meta = Undefined THEN Undefined ELSE result.meta.changes

execReturnsFailure(query, result) ==
  [kind |-> "return",
   value |-> [success |-> result.success, changes |-> MetaChanges(result)]]

\* exec, after the awaited run(): throw on failure, else the DatabaseResult
exec(query, result) ==
  IF ~result.success
    THEN Throw([name |-> "Error", message |-> "Query failed: " \o query])
    ELSE Return([success |-> TRUE, changes |-> MetaChanges(result)])

\* insert: keys of the combined object
insertKeys(defaults, record) == ObjectKeys(Spread(defaults, record))

\* insert: values = keys.map(k => combined[k]!)
insertValues(defaults, record) ==
  LET combined == Spread(defaults, record)
      keys == ObjectKeys(combined)
  IN  [i \in 1..Len(keys) |-> Get(combined, keys[i])]

\* insert: the query text
insertQuery(table, defaults, record) ==
  LET keys == insertKeys(defaults, record)
      placeholders == Join([i \in 1..Len(keys) |-> Placeholder(i)], ", ")
  IN  "INSERT INTO " \o table \o " (" \o Join(keys, ", ")
        \o ") VALUES (" \o placeholders \o ")"

insert ==
  /\ pc = "called"
  /\ call.op = "insert"
  /\ LET query == insertQuery(tableName, defaultProperties, call.record)
         values == insertValues(defaultProperties, call.record)
     IN  \E result \in RunResults(dbFailing) :
           /\ prepared' = Append(prepared, Statement(query, values, "run"))
           /\ answer' = result
           /\ outcome' = exec(query, result)
  /\ pc' = "returned"
  /\ UNCHANGED <<extra, config, dbFailing, call>>

----------------------------------------------------------------------------

columnsOfStarWhenEmpty(props) ==
  IF "array" \in DOMAIN props
    THEN (IF props.array = <<>> THEN "*" ELSE Join(props.array, ", "))
    ELSE props.single

\* Array.isArray(props) ? props.join(', ') : (props as string)
columnsOf(props) ==
  IF "array" \in DOMAIN props
    THEN Join(props.array, ", ")
    ELSE props.single

findOneQuery(table, props, conditionKey) ==
  "SELECT " \o columnsOf(props) \o " FROM " \o table
    \o " WHERE " \o conditionKey \o " = ?1 LIMIT 1"

findOne ==
  /\ pc = "called"
  /\ call.op = "findOne"
  /\ LET query == findOneQuery(tableName, call.props, call.conditionKey)
     IN  /\ prepared' =
              Append(prepared, Statement(query, <<call.conditionValue>>, "first"))
         /\ IF dbFailing
              THEN answer' = Throw(HandleError) /\ outcome' = answer'
              ELSE \E row \in FirstResults :
                     answer' = row /\ outcome' = Return(row)
  /\ pc' = "returned"
  /\ UNCHANGED <<extra, config, dbFailing, call>>

findAllQuery(table, props) ==
  "SELECT " \o columnsOf(props) \o " FROM " \o table

findAll ==
  /\ pc = "called"
  /\ call.op = "findAll"
  /\ LET query == findAllQuery(tableName, call.props)
     IN  /\ prepared' = Append(prepared, Statement(query, <<>>, "all"))
         /\ IF dbFailing
              THEN answer' = Throw(HandleError) /\ outcome' = answer'
              ELSE \E res \in AllResults :
                     answer' = res /\ outcome' = Return(res.results)
  /\ pc' = "returned"
  /\ UNCHANGED <<extra, config, dbFailing, call>>

\* findMany: whereObj, chosen by `filter === undefined`
findManyWhereObj(propsOrFilter, filter) ==
  IF filter = Undefined THEN propsOrFilter.obj ELSE filter.obj

\* findMany: columns, chosen by `filter === undefined`
findManyColumns(propsOrFilter, filter) ==
  IF filter = Undefined THEN "*" ELSE columnsOf(propsOrFilter)

findManyClausesFromTwo(whereObj) ==
  LET keys == ObjectKeys(whereObj)
  IN  Join([i \in 1..Len(keys) |-> keys[i] \o " = " \o Placeholder(i + 1)],
           " AND ")

\* findMany: keys.map((k, i) => `${k} = ?${i + 1}`).join(' AND ')
findManyClauses(whereObj) ==
  LET keys == ObjectKeys(whereObj)
  IN  Join([i \in 1..Len(keys) |-> keys[i] \o " = " \o Placeholder(i)],
           " AND ")

findManyQuery(table, propsOrFilter, filter) ==
  LET clauses == findManyClauses(findManyWhereObj(propsOrFilter, filter))
  IN  "SELECT " \o findManyColumns(propsOrFilter, filter) \o " FROM " \o table
        \o (IF clauses # "" THEN " WHERE " \o clauses ELSE "")

\* findMany: keys.map(k => whereObj[k])
findManyValues(propsOrFilter, filter) ==
  LET whereObj == findManyWhereObj(propsOrFilter, filter)
      keys == ObjectKeys(whereObj)
  IN  [i \in 1..Len(keys) |-> Get(whereObj, keys[i])]

findMany ==
  /\ pc = "called"
  /\ call.op = "findMany"
  /\ LET query == findManyQuery(tableName, call.propsOrFilter, call.filter)
         values == findManyValues(call.propsOrFilter, call.filter)
     IN  /\ prepared' = Append(prepared, Statement(query, values, "all"))
         /\ IF dbFailing
              THEN answer' = Throw(HandleError) /\ outcome' = answer'
              ELSE \E res \in AllResults :
                     answer' = res /\ outcome' = Return(res.results)
  /\ pc' = "returned"
  /\ UNCHANGED <<extra, config, dbFailing, call>>

updateSettersFromOne(record) ==
  LET keys == ObjectKeys(record)
  IN  Join([i \in 1..Len(keys) |-> keys[i] \o " = " \o Placeholder(i)], ", ")

\* update: keys.map((key, i) => `${key} = ?${i + 2}`).join(', ')
updateSetters(record) ==
  LET keys == ObjectKeys(record)
  IN  Join([i \in 1..Len(keys) |-> keys[i] \o " = " \o Placeholder(i + 1)],
           ", ")

updateQuery(table, record, conditionKey) ==
  "UPDATE " \o table \o " SET " \o updateSetters(record)
    \o " WHERE " \o conditionKey \o " = ?1"

\* update: [conditionValue, ...keys.map(k => record[k])]
updateValues(record, conditionValue) ==
  LET keys == ObjectKeys(record)
  IN  <<conditionValue>> \o [i \in 1..Len(keys) |-> Get(record, keys[i])]

updateNoShortCircuit(record) == FALSE

\* update: keys.length === 0
updateIsNoop(record) == Len(ObjectKeys(record)) = 0

update ==
  /\ pc = "called"
  /\ call.op = "update"
  /\ IF updateIsNoop(call.record)
       THEN /\ outcome' = Return([success |-> TRUE, changes |-> Num(0)])
            /\ UNCHANGED <<prepared, answer>>
       ELSE LET query == updateQuery(tableName, call.record, call.conditionKey)
                values == updateValues(call.record, call.conditionValue)
            IN  \E result \in RunResults(dbFailing) :
                  /\ prepared' = Append(prepared, Statement(query, values, "run"))
                  /\ answer' = result
                  /\ outcome' = exec(query, result)
  /\ pc' = "returned"
  /\ UNCHANGED <<extra, config, dbFailing, call>>

deleteQuery(table, conditionKey) ==
  "DELETE FROM " \o table \o " WHERE " \o conditionKey \o " = ?1"

delete ==
  /\ pc = "called"
  /\ call.op = "delete"
  /\ LET query == deleteQuery(tableName, call.conditionKey)
     IN  \E result \in RunResults(dbFailing) :
           /\ prepared' =
                Append(prepared, Statement(query, <<call.conditionValue>>, "run"))
           /\ answer' = result
           /\ outcome' = exec(query, result)
  /\ pc' = "returned"
  /\ UNCHANGED <<extra, config, dbFailing, call>>

incrementQuery(table, column, conditionKey) ==
  "UPDATE " \o table \o " SET " \o column \o " = " \o column
    \o " + ?1 WHERE " \o conditionKey \o " = ?2"

incrementValuesSwapped(step, conditionValue) == <<conditionValue, step>>

\* increment: [step, conditionValue]
incrementValues(step, conditionValue) == <<step, conditionValue>>

increment ==
  /\ pc = "called"
  /\ call.op = "increment"
  /\ LET query == incrementQuery(tableName, call.column, call.conditionKey)
         values == incrementValues(call.step, call.conditionValue)
     IN  \E result \in RunResults(dbFailing) :
           /\ prepared' = Append(prepared, Statement(query, values, "run"))
           /\ answer' = result
           /\ outcome' = exec(query, result)
  /\ pc' = "returned"
  /\ UNCHANGED <<extra, config, dbFailing, call>>

existsQuery(table, conditionKey) ==
  "SELECT 1 FROM " \o table \o " WHERE " \o conditionKey \o " = ?1 LIMIT 1"

BooleanAlwaysTrue(v) == TRUE

\* Boolean(result) of first()'s answer: null is falsy, a row object is truthy
Boolean(v) == v # Null

exists ==
  /\ pc = "called"
  /\ call.op = "exists"
  /\ LET query == existsQuery(tableName, call.conditionKey)
     IN  /\ prepared' =
              Append(prepared, Statement(query, <<call.conditionValue>>, "first"))
         /\ IF dbFailing
              THEN answer' = Throw(HandleError) /\ outcome' = answer'
              ELSE \E row \in FirstResults :
                     answer' = row /\ outcome' = Return(Boolean(row))
  /\ pc' = "returned"
  /\ UNCHANGED <<extra, config, dbFailing, call>>

\* a call of a member the class does not define: `db.m(...)` with db.m
\* undefined raises a TypeError before anything reaches the handle
callUndefinedMember ==
  /\ pc = "called"
  /\ call.op \notin Methods
  /\ outcome' =
       Throw([name |-> "TypeError",
              message |-> "db." \o call.op \o " is not a function"])
  /\ pc' = "returned"
  /\ UNCHANGED <<extra, config, dbFailing, call, prepared, answer>>

----------------------------------------------------------------------------
(* The calls a caller can make: the documented API of the accessor. *)

ByIdMethods ==
  {"findById", "updateById", "deleteById", "incrementById", "existsById"}

Records == ObjectsUpTo(MaxKeys)

Calls ==
  {[op |-> "insert", record |-> r] : r \in Records}
  \cup {[op |-> "findOne", props |-> p, conditionKey |-> k, conditionValue |-> v] :
          p \in PropsSet, k \in Columns, v \in Values}
  \cup {[op |-> "findAll", props |-> p] : p \in PropsSet}
  \cup {[op |-> "findMany", propsOrFilter |-> Obj(f), filter |-> Undefined] :
          f \in Records}
  \cup {[op |-> "findMany", propsOrFilter |-> p, filter |-> Obj(f)] :
          p \in PropsSet, f \in Records}
  \cup {[op |-> "update", record |-> r, conditionKey |-> k, conditionValue |-> v] :
          r \in Records, k \in Columns, v \in Values}
  \cup {[op |-> "delete", conditionKey |-> k, conditionValue |-> v] :
          k \in Columns, v \in Values}
  \cup {[op |-> "increment", column |-> c, step |-> s,
         conditionKey |-> k, conditionValue |-> v] :
          c \in Columns, s \in Steps, k \in Columns, v \in Values}
  \cup {[op |-> "exists", conditionKey |-> k, conditionValue |-> v] :
          k \in Columns, v \in Values}
  \cup {[op |-> "findById", props |-> p, id |-> v] : p \in PropsSet, v \in Values}
  \cup {[op |-> "updateById", record |-> r, id |-> v] : r \in Records, v \in Values}
  \cup {[op |-> "deleteById", id |-> v] : v \in Values}
  \cup {[op |-> "incrementById", column |-> c, step |-> s, id |-> v] :
          c \in Columns, s \in Steps, v \in Values}
  \cup {[op |-> "existsById", id |-> v] : v \in Values}

\* new Database({ db, tableName, defaultProperties, primaryKeyName }), and a
\* caller about to make one call
Init ==
  /\ db = "D1"
  /\ tableName \in Tables
  /\ primaryKeyName \in {"id"}
  /\ defaultProperties \in ObjectsUpTo(MaxDefaultKeys)
  /\ dbFailing \in BOOLEAN
  /\ prepared = <<>>
  /\ call \in Calls
  /\ pc = "called"
  /\ answer = Undefined
  /\ outcome = Undefined
  /\ rows = <<>>
  /\ prior = Undefined
  /\ tasks = <<>>

Next ==
  \/ insert
  \/ findOne
  \/ findAll
  \/ findMany
  \/ update
  \/ delete
  \/ increment
  \/ exists
  \/ callUndefinedMember

Spec == Init /\ [][Next]_vars

----------------------------------------------------------------------------
(* Properties of insert, update and findMany. *)

Returned(op) == pc = "returned" /\ call.op = op

\* the statement the call in flight handed to the handle
Sent == prepared[Len(prepared)]

\* the text "?1, ?2, ..., ?n"
PlaceholderList(n) == Join([i \in 1..n |-> "?" \o ToString(i)], ", ")

\* the INSERT text for a column list
InsertText(table, cols) ==
  "INSERT INTO " \o table \o " (" \o Join(cols, ", ") \o ") VALUES ("
    \o PlaceholderList(Len(cols)) \o ")"

\* the value the shallow merge of D and R holds for key k
MergedValue(D, R, k) == IF HasKey(R, k) THEN Get(R, k) ELSE Get(D, k)

\* the keys of D in D's order, then the keys of R that D lacks, in R's order
MergedKeys(D, R) ==
  ObjectKeys(D) \o SelectSeq(ObjectKeys(R), LAMBDA k : ~HasKey(D, k))

\* every ordering of a set of column names
Orderings(S) ==
  {c \in [1..Cardinality(S) -> S] :
     \A i, j \in 1..Cardinality(S) : i # j => c[i] # c[j]}

KeySet(o) == {o[i][1] : i \in 1..Len(o)}

SetText(keys) ==
  Join([i \in 1..Len(keys) |-> keys[i] \o " = ?" \o ToString(i + 1)], ", ")

\* C2: update(R, key, value) with R non-empty sends the parameters
\* [value, R[k1], ..., R[kn]], its WHERE clause uses ?1 and the SET clause of
\* ki uses ?(i+1), so placeholder p names position p of the parameters.
C2_UpdatePlaceholdersMatchParams ==
  (Returned("update") /\ Len(call.record) > 0) =>
    LET keys == ObjectKeys(call.record)
    IN  /\ Len(prepared) = 1
        /\ Sent.query =
             "UPDATE " \o tableName \o " SET " \o SetText(keys)
               \o " WHERE " \o call.conditionKey \o " = ?1"
        /\ Len(Sent.params) = Len(keys) + 1
        /\ Sent.params[1] = call.conditionValue
        /\ \A i \in 1..Len(keys) :
             Sent.params[i + 1] = call.record[i][2]

\* an update of two columns with different values
C2_Witness ==
  /\ Returned("update")
  /\ Len(call.record) = 2
  /\ call.record[1][2] # call.record[2][2]
  /\ call.conditionValue # call.record[1][2]
  /\ Len(Sent.params) = 3

\* C3: update with a record of zero keys hands nothing to the handle and
\* returns {success: true, changes: 0}, whatever the condition and whatever
\* the state of the handle.
C3_EmptyUpdateIssuesNothing ==
  [][(pc = "called" /\ call.op = "update" /\ Len(call.record) = 0) =>
       /\ prepared' = prepared
       /\ answer' = answer
       /\ outcome' = Return([success |-> TRUE, changes |-> Num(0)])]_vars

\* an empty update that returned, on a handle that fails every statement
C3_Witness ==
  /\ Returned("update")
  /\ Len(call.record) = 0
  /\ dbFailing
  /\ outcome.kind = "return"

FilterOf(c) == IF c.filter = Undefined THEN c.propsOrFilter.obj ELSE c.filter.obj

\* the WHERE text "k1 = ?1 AND k2 = ?2 ..."
WhereText(keys) ==
  Join([i \in 1..Len(keys) |-> keys[i] \o " = ?" \o ToString(i)], " AND ")

\* the select lists a statement can carry
SelectLists ==
  {"*"} \cup Columns
    \cup {Join(a, ", ") : a \in UNION {ArraysOfLen(k) : k \in 0..MaxKeys}}

\* C5: findMany with a filter of keys k1..kn (n >= 1) sends a WHERE clause of
\* exactly the n clauses 'ki = ?i' joined by AND, and n parameters F[ki], in
\* both call shapes.
C5_FindManyClausesMatchParams ==
  (Returned("findMany") /\ Len(FilterOf(call)) >= 1) =>
    LET F == FilterOf(call)
        keys == ObjectKeys(F)
    IN  /\ Len(prepared) = 1
        /\ \E sel \in SelectLists :
             Sent.query =
               "SELECT " \o sel \o " FROM " \o tableName
                 \o " WHERE " \o WhereText(keys)
        /\ Len(Sent.params) = Len(keys)
        /\ \A i \in 1..Len(keys) : Sent.params[i] = F[i][2]

\* a findMany with selected columns and a filter of two keys
C5_Witness ==
  /\ Returned("findMany")
  /\ call.filter # Undefined
  /\ Len(call.filter.obj) = 2
  /\ call.filter.obj[1][2] # call.filter.obj[2][2]
  /\ Len(Sent.params) = 2

----------------------------------------------------------------------------
(* Properties of the primary-key forms, of exec and of the reads. *)

\* what the general operation hands to the handle when it is called with
\* the configured primary key as its condition key
GeneralForm(c) ==
  CASE c.op = "findById" ->
         <<Statement(findOneQuery(tableName, c.props, primaryKeyName),
                     <<c.id>>, "first")>>
    [] c.op = "updateById" ->
         IF Len(c.record) = 0 THEN <<>>
         ELSE <<Statement(updateQuery(tableName, c.record, primaryKeyName),
                          updateValues(c.record, c.id), "run")>>
    [] c.op = "deleteById" ->
         <<Statement(deleteQuery(tableName, primaryKeyName), <<c.id>>, "run")>>
    [] c.op = "incrementById" ->
         <<Statement(incrementQuery(tableName, c.column, primaryKeyName),
                     incrementValues(c.step, c.id), "run")>>
    [] c.op = "existsById" ->
         <<Statement(existsQuery(tableName, primaryKeyName), <<c.id>>, "first")>>

\* C6: findById, updateById, deleteById, incrementById and existsById exist
\* on the accessor and hand the handle the statement and parameters that
\* findOne, update, delete, increment and exists hand it for the configured
\* primary-key column.
C6_ByIdFormsDelegate ==
  (pc = "returned" /\ call.op \in ByIdMethods) =>
    /\ ~(outcome.kind = "throw" /\ outcome.error.name = "TypeError")
    /\ prepared = GeneralForm(call)

MutatingMethods == {"insert", "update", "delete", "increment"}

\* the change count the engine reported in a D1Result, undefined when none
ReportedChanges(r) ==
  IF r.meta = Undefined THEN Undefined
  ELSE IF r.meta.changes = Undefined THEN Undefined
  ELSE r.meta.changes

C8_ReadsOfNoRows ==
  /\ (Returned("findOne") /\ answer = Null) => outcome = Return(Null)
  /\ (pc = "returned" /\ call.op \in {"findAll", "findMany"}
        /\ "results" \in DOMAIN answer /\ Len(answer.results) = 0) =>
       outcome = Return(<<>>)
  /\ (Returned("exists") /\ answer = Null) => outcome = Return(FALSE)
  /\ (Returned("exists") /\ "obj" \in DOMAIN answer) => outcome = Return(TRUE)

\* an exists that found no row
C8_Witness ==
  /\ Returned("exists")
  /\ answer = Null
  /\ outcome = Return(FALSE)

\* the selected columns of a read call, where it has any
HasProps(c) ==
  \/ c.op \in {"findOne", "findAll"}
  \/ c.op = "findMany" /\ c.filter # Undefined

PropsOf(c) == IF c.op = "findMany" THEN c.propsOrFilter ELSE c.props

\* the statement text after the table name
TextAfterTable(c) ==
  CASE c.op = "findOne" -> " WHERE " \o c.conditionKey \o " = ?1 LIMIT 1"
    [] c.op = "findAll" -> ""
    [] c.op = "findMany" ->
         IF Len(c.filter.obj) = 0 THEN ""
         ELSE " WHERE " \o WhereText(ObjectKeys(c.filter.obj))

\* the select list when an empty sequence means "all columns"
SelectListStar(props) ==
  IF "single" \in DOMAIN props THEN props.single
  ELSE IF Len(props.array) = 0 THEN "*"
  ELSE Join(props.array, ", ")

\* the select list when the names are joined as they are given
SelectListAsGiven(props) ==
  IF "single" \in DOMAIN props THEN props.single
  ELSE IF Len(props.array) = 0 THEN ""
  ELSE Join(props.array, ", ")

\* C9 as stated: in findOne, findAll and findMany an empty sequence of
\* selected columns yields 'SELECT * FROM <table> ...', a single name selects
\* that column and a non-empty sequence its names comma-joined in order.
C9_EmptySelectionSelectsAll ==
  (pc = "returned" /\ call.op \in Methods /\ HasProps(call)) =>
    Sent.query =
      "SELECT " \o SelectListStar(PropsOf(call)) \o " FROM " \o tableName
        \o TextAfterTable(call)

\* C9 amended: the selected columns are interpolated as given: a single name
\* selects that column, a sequence its names comma-joined in order, and an
\* empty sequence an empty select list ('SELECT  FROM <table> ...'), not '*'.
C9_SelectionInterpolatedAsGiven ==
  (pc = "returned" /\ call.op \in Methods /\ HasProps(call)) =>
    Sent.query =
      "SELECT " \o SelectListAsGiven(PropsOf(call)) \o " FROM " \o tableName
        \o TextAfterTable(call)

\* a findOne with an empty sequence of columns
C9_Witness ==
  /\ Returned("findOne")
  /\ call.props = Arr(<<>>)
  /\ call.conditionKey = "id"
  /\ Sent.query = "SELECT  FROM users WHERE id = ?1 LIMIT 1"

\* C10: insert omits undefined values: a key whose value is undefined in
\* the record is not bound to undefined as a column, and does not replace a
\* defined default of that key.
C10_InsertOmitsUndefined ==
  Returned("insert") =>
    \E cols \in Orderings(KeySet(defaultProperties) \cup KeySet(call.record))
                  \cup Orderings(KeySet(defaultProperties)
                                   \cup {k \in KeySet(call.record) :
                                           Get(call.record, k) # Undefined}) :
      /\ Sent.query = InsertText(tableName, cols)
      /\ Len(Sent.params) = Len(cols)
      /\ \A k \in KeySet(call.record) :
           Get(call.record, k) = Undefined =>
             /\ \A i \in 1..Len(cols) :
                  cols[i] = k => Sent.params[i] # Undefined
             /\ (HasKey(defaultProperties, k)
                   /\ Get(defaultProperties, k) # Undefined) =>
                  \E i \in 1..Len(cols) :
                    cols[i] = k /\ Sent.params[i] = Get(defaultProperties, k)

----------------------------------------------------------------------------
(* The handle as an engine: it holds the rows of the table and executes    *)
(* the statement it is handed with the parameters bound to it, ?n naming   *)
(* the n-th bound parameter.                                               *)

\* most rows in the engine's table
MaxEngineRows == 2

\* the numeric columns of the engine's table and the numbers they hold
EngineColumns == {"id", "age"}
CellValues == {Num(0), Num(1), Num(2)}

EngineRow(i, a) == <<<<"id", i>>, <<"age", a>>>>

EngineTables ==
  UNION {[1..n -> {EngineRow(i, a) : i \in CellValues, a \in CellValues}] :
           n \in 0..MaxEngineRows}

\* the readings of a text as 'UPDATE t SET c = c + ?p WHERE k = ?q'
ParseIncrement(query, nparams) ==
  {r \in [table : Tables, column : EngineColumns, addend : 1..nparams,
          key : EngineColumns, value : 1..nparams] :
     query = "UPDATE " \o r.table \o " SET " \o r.column \o " = " \o r.column
               \o " + ?" \o ToString(r.addend) \o " WHERE " \o r.key
               \o " = ?" \o ToString(r.value)}

\* the readings of a text as 'SELECT c FROM t WHERE k = ?q LIMIT 1'
ParseSelectOne(query, nparams) ==
  {r \in [table : Tables, column : EngineColumns,
          key : EngineColumns, value : 1..nparams] :
     query = "SELECT " \o r.column \o " FROM " \o r.table \o " WHERE "
               \o r.key \o " = ?" \o ToString(r.value) \o " LIMIT 1"}

\* the indices of the rows of a table with row[key] = v
Matching(tbl, key, v) == {i \in 1..Len(tbl) : Get(tbl[i], key) = v}

\* run() of an increment statement: the new rows and the D1Result
EngineRun(tbl, stmt) ==
  LET readings == ParseIncrement(stmt.query, Len(stmt.params))
  IN  IF readings = {}
        THEN [rows |-> tbl, result |-> [success |-> FALSE, meta |-> Undefined]]
        ELSE LET r == CHOOSE x \in readings : TRUE
                 hit == Matching(tbl, r.key, stmt.params[r.value])
             IN  [rows |->
                    [i \in 1..Len(tbl) |->
                       IF i \in hit
                         THEN SetKey(tbl[i], r.column,
                                     Num(Get(tbl[i], r.column).num
                                           + stmt.params[r.addend].num))
                         ELSE tbl[i]],
                  result |->
                    [success |-> TRUE,
                     meta |-> [changes |-> Num(Cardinality(hit))]]]

\* first() of a select statement: the first matching row, narrowed to the
\* selected column, or null
EngineFirst(tbl, stmt) ==
  LET readings == ParseSelectOne(stmt.query, Len(stmt.params))
  IN  IF readings = {}
        THEN Throw(HandleError)
        ELSE LET r == CHOOSE x \in readings : TRUE
                 hit == Matching(tbl, r.key, stmt.params[r.value])
             IN  IF hit = {}
                   THEN Null
                   ELSE LET i == CHOOSE x \in hit : \A y \in hit : x <= y
                        IN  Obj(<<<<r.column, Get(tbl[i], r.column)>>>>)

\* increment, its statement executed by the engine
incrementOnEngine ==
  /\ pc = "called"
  /\ call.op = "increment"
  /\ LET query == incrementQuery(tableName, call.column, call.conditionKey)
         values == incrementValues(call.step, call.conditionValue)
         done == EngineRun(rows, Statement(query, values, "run"))
     IN  /\ prepared' = Append(prepared, Statement(query, values, "run"))
         /\ rows' = done.rows
         /\ answer' = done.result
         /\ outcome' = exec(query, done.result)
  /\ prior' = [rows |-> rows, call |-> call]
  /\ pc' = "incremented"
  /\ UNCHANGED <<config, dbFailing, call, tasks>>

\* the findOne of the incremented column that follows, on any condition
findOneOnEngine ==
  /\ pc = "incremented"
  /\ \E k \in EngineColumns, v \in CellValues :
       LET query == findOneQuery(tableName, Single(call.column), k)
           row == EngineFirst(rows, Statement(query, <<v>>, "first"))
       IN  /\ call' = [op |-> "findOne", props |-> Single(call.column),
                       conditionKey |-> k, conditionValue |-> v]
           /\ prepared' = Append(prepared, Statement(query, <<v>>, "first"))
           /\ answer' = row
           /\ outcome' = IF row = Throw(HandleError) THEN row ELSE Return(row)
  /\ pc' = "returned"
  /\ UNCHANGED <<config, dbFailing, rows, prior, tasks>>

EngineCalls ==
  {[op |-> "increment", column |-> c, step |-> s,
    conditionKey |-> k, conditionValue |-> v] :
     c \in EngineColumns, s \in Steps, k \in EngineColumns, v \in CellValues}

InitEngine ==
  /\ db = "D1"
  /\ tableName \in Tables
  /\ primaryKeyName \in {"id"}
  /\ defaultProperties = <<>>
  /\ dbFailing = FALSE
  /\ prepared = <<>>
  /\ call \in EngineCalls
  /\ pc = "called"
  /\ answer = Undefined
  /\ outcome = Undefined
  /\ rows \in EngineTables
  /\ prior = Undefined
  /\ tasks = <<>>

NextEngine ==
  \/ incrementOnEngine
  \/ findOneOnEngine

SpecEngine == InitEngine /\ [][NextEngine]_vars

\* the value a row holds in a column after increment(column, step, key, value)
AfterIncrement(old, inc) ==
  IF Get(old, inc.conditionKey) = inc.conditionValue
    THEN Num(Get(old, inc.column).num + inc.step.num)
    ELSE Get(old, inc.column)

\* C11: on an engine that executes what it is handed, increment(column,
\* step, key, value) sends '... column = column + ?1 WHERE key = ?2' with
\* [step, value]; every row with key = value then holds its prior value plus
\* step (negative and zero steps too), every other row is unchanged, and a
\* following findOne of the column returns that value of the row it finds.
C11_IncrementThenFindOne ==
  (pc = "returned" /\ call.op = "findOne" /\ prior # Undefined) =>
    LET inc == prior.call
        old == prior.rows
        found == {i \in 1..Len(rows) :
                    Get(rows[i], call.conditionKey) = call.conditionValue}
    IN  /\ prepared[1] =
             [query |-> "UPDATE " \o tableName \o " SET " \o inc.column
                          \o " = " \o inc.column \o " + ?1 WHERE "
                          \o inc.conditionKey \o " = ?2",
              params |-> <<inc.step, inc.conditionValue>>,
              method |-> "run"]
        /\ Len(rows) = Len(old)
        /\ \A i \in 1..Len(old) :
             /\ Get(rows[i], inc.column) = AfterIncrement(old[i], inc)
             /\ \A c \in EngineColumns \ {inc.column} :
                  Get(rows[i], c) = Get(old[i], c)
             /\ Get(old[i], inc.conditionKey) # inc.conditionValue =>
                  rows[i] = old[i]
        /\ IF found = {}
             THEN outcome = Return(Null)
             ELSE LET i == CHOOSE x \in found : \A y \in found : x <= y
                  IN  outcome =
                        Return(Obj(<<<<inc.column, AfterIncrement(old[i], inc)>>>>))

\* a negative step on a table with a matched and an unmatched row, and a
\* findOne that reads the matched row
C11_Witness ==
  /\ pc = "returned"
  /\ call.op = "findOne"
  /\ prior # Undefined
  /\ prior.call.step = Num(0 - 1)
  /\ prior.call.column = "age"
  /\ prior.call.conditionKey = "id"
  /\ Len(rows) = 2
  /\ Get(prior.rows[1], "id") # prior.call.conditionValue
  /\ Get(prior.rows[2], "id") = prior.call.conditionValue
  /\ call.conditionKey = "id"
  /\ call.conditionValue = prior.call.conditionValue
  /\ outcome = Return(Obj(<<<<"age", Num(Get(prior.rows[2], "age").num - 1)>>>>))

----------------------------------------------------------------------------
(* Several callers on one accessor.  A public method runs synchronously up *)
(* to its one await of the handle, and resumes when the handle has         *)
(* answered; the calls of different callers interleave at the await.       *)

\* most callers, and most statements the handle is handed in one behaviour
MaxCallers == 2

Callers == 1..MaxCallers

\* one call of each public method, and an update of no fields
SomeCalls ==
  {[op |-> "insert", record |-> <<<<"id", Num(1)>>>>],
   [op |-> "findOne", props |-> Single("name"),
    conditionKey |-> "id", conditionValue |-> Num(1)],
   [op |-> "findAll", props |-> Arr(<<"id">>)],
   [op |-> "findMany", propsOrFilter |-> Obj(<<<<"age", Num(1)>>>>),
    filter |-> Undefined],
   [op |-> "update", record |-> <<>>,
    conditionKey |-> "id", conditionValue |-> Num(1)],
   [op |-> "update", record |-> <<<<"name", Str("Alice")>>>>,
    conditionKey |-> "id", conditionValue |-> Num(1)],
   [op |-> "delete", conditionKey |-> "id", conditionValue |-> Num(1)],
   [op |-> "increment", column |-> "age", step |-> Num(2),
    conditionKey |-> "id", conditionValue |-> Num(1)],
   [op |-> "exists", conditionKey |-> "id", conditionValue |-> Num(1)]}

\* the statement a method builds from its arguments
statementOf(table, defaults, c) ==
  CASE c.op = "insert" ->
         Statement(insertQuery(table, defaults, c.record),
                   insertValues(defaults, c.record), "run")
    [] c.op = "findOne" ->
         Statement(findOneQuery(table, c.props, c.conditionKey),
                   <<c.conditionValue>>, "first")
    [] c.op = "findAll" ->
         Statement(findAllQuery(table, c.props), <<>>, "all")
    [] c.op = "findMany" ->
         Statement(findManyQuery(table, c.propsOrFilter, c.filter),
                   findManyValues(c.propsOrFilter, c.filter), "all")
    [] c.op = "update" ->
         Statement(updateQuery(table, c.record, c.conditionKey),
                   updateValues(c.record, c.conditionValue), "run")
    [] c.op = "delete" ->
         Statement(deleteQuery(table, c.conditionKey),
                   <<c.conditionValue>>, "run")
    [] c.op = "increment" ->
         Statement(incrementQuery(table, c.column, c.conditionKey),
                   incrementValues(c.step, c.conditionValue), "run")
    [] c.op = "exists" ->
         Statement(existsQuery(table, c.conditionKey),
                   <<c.conditionValue>>, "first")

submitsTwice(table, defaults, c) ==
  IF c.op = "update" /\ updateIsNoop(c.record)
    THEN <<>>
    ELSE <<statementOf(table, defaults, c), statementOf(table, defaults, c)>>

\* the statements a call prepares, binds and starts before its await: none
\* for an update of no fields, which returns at once, and one otherwise
submits(table, defaults, c) ==
  IF c.op = "update" /\ updateIsNoop(c.record)
    THEN <<>>
    ELSE <<statementOf(table, defaults, c)>>

\* what the handle may answer to a statement started with run, first or all
Answers(method, failing) ==
  CASE method = "run" -> RunResults(failing)
    [] method = "first" -> IF failing THEN {Throw(HandleError)} ELSE FirstResults
    [] method = "all" -> IF failing THEN {Throw(HandleError)} ELSE AllResults

\* the rest of a method, after the handle has answered its statement
resumes(c, stmt, ans) ==
  IF stmt.method = "run" THEN exec(stmt.query, ans)
  ELSE IF ans = Throw(HandleError) THEN ans
  ELSE IF c.op = "exists" THEN Return(Boolean(ans))
  ELSE IF stmt.method = "all" THEN Return(ans.results)
  ELSE Return(ans)

Idle == [pc |-> "idle"]

\* caller t calls a method: it runs to its await, or to its return when it
\* awaits nothing
invoke(t) ==
  /\ tasks[t].pc \in {"idle", "returned"}
  /\ Len(prepared) < MaxCallers
  /\ \E c \in SomeCalls :
       LET stmts == submits(tableName, defaultProperties, c)
       IN  /\ prepared' = prepared \o stmts
           /\ tasks' =
                [tasks EXCEPT ![t] =
                   IF stmts = <<>>
                     THEN [pc |-> "returned", call |-> c, sent |-> stmts,
                           outcome |->
                             Return([success |-> TRUE, changes |-> Num(0)])]
                     ELSE [pc |-> "awaiting", call |-> c, sent |-> stmts]]
  /\ UNCHANGED <<config, dbFailing, call, pc, answer, outcome, rows, prior>>

\* the handle answers the statement caller t awaits, and the method returns
settle(t) ==
  /\ tasks[t].pc = "awaiting"
  /\ \E ans \in Answers(tasks[t].sent[1].method, dbFailing) :
       tasks' =
         [tasks EXCEPT ![t] =
            [pc |-> "returned", call |-> tasks[t].call, sent |-> tasks[t].sent,
             outcome |-> resumes(tasks[t].call, tasks[t].sent[1], ans)]]
  /\ UNCHANGED <<config, dbFailing, prepared, call, pc, answer, outcome,
                 rows, prior>>

InitCalls ==
  /\ db = "D1"
  /\ tableName \in Tables
  /\ primaryKeyName \in {"id"}
  /\ defaultProperties \in {<<>>, <<<<"name", Str("Alice")>>>>}
  /\ dbFailing \in BOOLEAN
  /\ prepared = <<>>
  /\ call = Undefined
  /\ pc = "idle"
  /\ answer = Undefined
  /\ outcome = Undefined
  /\ rows = <<>>
  /\ prior = Undefined
  /\ tasks = [t \in Callers |-> Idle]

NextCalls ==
  \/ \E t \in Callers : invoke(t)
  \/ \E t \in Callers : settle(t)

SpecCalls == InitCalls /\ [][NextCalls]_vars

\* statements that open or close a transaction
TransactionTexts == {"BEGIN", "BEGIN TRANSACTION", "COMMIT", "ROLLBACK"}

\* the calls that have been made and not yet replaced by the caller's next
Made == {t \in Callers : tasks[t].pc # "idle"}

\* C12 as stated: in any sequence or interleaving of calls, every call
\* submits exactly one prepared statement to the handle.
C12_EveryCallSubmitsOne ==
  \A t \in Made : Len(tasks[t].sent) = 1

\* C12 amended: in any sequence or interleaving of calls, every call submits
\* exactly one statement, except an update of no fields, which submits none;
\* no statement opens a transaction, the handle's answer is followed by no
\* further statement (no retry), and no step changes the configuration.
C12_OneStatementPerCallButEmptyUpdate ==
  /\ [](\A t \in Made :
          /\ Len(tasks[t].sent) =
               (IF tasks[t].call.op = "update" /\ Len(tasks[t].call.record) = 0
                  THEN 0 ELSE 1)
          /\ \A i \in 1..Len(tasks[t].sent) :
               /\ tasks[t].sent[i].method \in {"run", "first", "all"}
               /\ tasks[t].sent[i].query \notin TransactionTexts)
  /\ [][/\ config' = config
        /\ Len(prepared') <= Len(prepared) + 1
        /\ \A t \in Callers :
             (tasks[t].pc = "awaiting" /\ tasks'[t].pc = "returned") =>
               prepared' = prepared]_vars

\* a failed insert that returned beside an update of no fields, one
\* statement in all having reached the handle
C12_Witness ==
  /\ tasks[1].pc = "returned"
  /\ tasks[1].call.op = "insert"
  /\ tasks[1].outcome.kind = "throw"
  /\ tasks[2].pc = "returned"
  /\ tasks[2].call.op = "update"
  /\ tasks[2].sent = <<>>
  /\ Len(prepared) = 1

====
